---- MODULE Spec2Model ----
(***************************************************************************)
(* A model of magnet's lazily built Nodes:                                 *)
(*   src/magnet/_utils.py       caller_locals, get_output_shape, to_node   *)
(*   src/magnet/nodes.py        Node._parse_params, Conv, Linear           *)
(*   src/magnet/nodes/nodes.py  Node.__init__/build/__call__/_parse_args   *)
(*                                                                         *)
(* Python values are tagged records, so that None, 'half' and 3 are three  *)
(* different values that can be compared.  A dict is a function from its   *)
(* keys (strings) to values, a tuple or list is a sequence.                *)
(***************************************************************************)
EXTENDS Integers, Sequences, FiniteSets, TLC

VARIABLES
    node,        \* the Node instance: cls, _args, _built, submodule, counters
    build_lock,  \* mag.build_lock, the process-wide flag
    last,        \* what the last operation was given and what it did
    probe,       \* the current run of get_output_shape calls on one shape
    inp,         \* the input of a constructor call / of to_node
    out          \* its result

vars == <<node, build_lock, last, probe, inp, out>>

---------------------------------------------------------------------------
(* Bounds of the model.                                                    *)
MaxPos == 2        \* positional arguments of a constructor call
MaxCalls == 3      \* invocations of one node
MaxRank == 6       \* rank of an input shape
MaxChan == 3       \* in_shape[1] ranges over 2..MaxChan
MaxSize == 5       \* every other dimension of an input shape
MaxDepth == 2      \* nesting of single-key mappings given to to_node

---------------------------------------------------------------------------
(* Python values.                                                          *)
None == [t |-> "none", i |-> 0, s |-> ""]
PyInt(n) == [t |-> "int", i |-> n, s |-> ""]
PyStr(x) == [t |-> "str", i |-> 0, s |-> x]
True == [t |-> "bool", i |-> 1, s |-> ""]
Obj(c) == [t |-> "obj", i |-> 0, s |-> c]
Class(c) == [t |-> "class", i |-> 0, s |-> c]

EmptyDict == [k \in {} |-> None]
DictSet(d, k, v) == [x \in DOMAIN d \cup {k} |-> IF x = k THEN v ELSE d[x]]
DictPop(d, k) == [x \in DOMAIN d \ {k} |-> d[x]]
DictUpdate(d, e) == [x \in DOMAIN d \cup DOMAIN e |-> IF x \in DOMAIN e THEN e[x] ELSE d[x]]
DictGet(d, k, dflt) == IF k \in DOMAIN d THEN d[k] ELSE dflt

NoError == "ok"

---------------------------------------------------------------------------
(* The class hierarchy and the per-class Parameter Tables.                 *)
IsSubclass(c, base) == c = base \/ (base = "Node" /\ c \in {"Conv", "Linear"})

ConvDefaults ==
    << <<"c", None>>, <<"k", PyInt(3)>>, <<"p", PyStr("half")>>, <<"s", PyInt(1)>>,
       <<"d", PyInt(1)>>, <<"g", PyInt(1)>>, <<"b", True>> >>

LinearDefaults == << <<"b", True>> >>

DefaultParams(cls) == IF cls = "Conv" THEN ConvDefaults ELSE LinearDefaults

TableKeys(cls) == { DefaultParams(cls)[i][1] : i \in 1..Len(DefaultParams(cls)) }

TableDefault(cls, k) ==
    LET i == CHOOSE j \in 1..Len(DefaultParams(cls)) : DefaultParams(cls)[j][1] = k
    IN  DefaultParams(cls)[i][2]

---------------------------------------------------------------------------
(* The call stack of a constructor call, innermost frame first, as         *)
(* caller_locals finds it: stack[1] is the frame of the method that calls  *)
(* caller_locals, stack[2] its caller, and so on outward.  A frame is the  *)
(* dict of its local variables.  A frame of a method that uses super()     *)
(* holds '__class__'.                                                      *)
NodeInitFrame(cls, pos, kw) ==
    [k \in {"self", "__class__", "args", "kwargs"} |->
        CASE k = "self" -> Obj(cls)
          [] k = "__class__" -> Class("Node")
          [] k = "args" -> pos
          [] OTHER -> kw]

LinearInitFrame(o, pos, kw) ==
    [k \in {"self", "__class__", "o", "args", "kwargs"} |->
        CASE k = "self" -> Obj("Linear")
          [] k = "__class__" -> Class("Linear")
          [] k = "o" -> o
          [] k = "args" -> pos
          [] OTHER -> kw]

ParserFrame(cls) == [k \in {"self"} |-> Obj(cls)]

UserFrame == [k \in {"net"} |-> None]

InitStack(cls, o, pos, kw) ==
    IF cls = "Linear"
    THEN <<ParserFrame(cls), NodeInitFrame(cls, pos, kw), LinearInitFrame(o, pos, kw), UserFrame>>
    ELSE <<ParserFrame(cls), NodeInitFrame(cls, pos, kw), UserFrame>>

(* The walk of ancestor mode: while the frame at idx belongs to an         *)
(* initialiser of the instance's hierarchy, take its locals and move out.  *)
RECURSIVE AncestorWalk(_, _, _, _, _)
AncestorWalk(stack, l, idx, f_class, caller) ==
    IF f_class # None /\ IsSubclass(caller.s, f_class.s)
    THEN AncestorWalk(stack, DictPop(stack[idx], "self"), idx + 1,
                      DictGet(stack[idx + 1], "__class__", None), caller)
    ELSE l

caller_locals(stack, ancestor) ==
    LET frame == stack[2]
        l == IF ancestor
             THEN AncestorWalk(stack, DictPop(DictPop(frame, "__class__"), "self"), 2,
                               DictGet(frame, "__class__", None), frame["self"])
             ELSE frame
    IN  DictPop(DictPop(l, "self"), "__class__")

---------------------------------------------------------------------------
(* Node._parse_params (src/magnet/nodes.py).                               *)
RECURSIVE BindPositional(_, _, _, _)
BindPositional(args, plist, pos, i) ==
    IF i > Len(pos) THEN [err |-> NoError, args |-> args]
    ELSE IF i > Len(plist) THEN [err |-> "IndexError", args |-> args]
    ELSE BindPositional(DictSet(args, plist[i][1], pos[i]), plist, pos, i + 1)

(* A resolver in which a positional binding wins over the keyword.        *)
RECURSIVE BindDefaults_PositionalWins(_, _, _)
BindDefaults_PositionalWins(args, plist, i) ==
    IF i > Len(plist) THEN args
    ELSE BindDefaults_PositionalWins(
             IF plist[i][1] \in DOMAIN args THEN args
             ELSE IF plist[i][1] \in DOMAIN args["kwargs"]
             THEN DictSet(args, plist[i][1], args["kwargs"][plist[i][1]])
             ELSE DictSet(args, plist[i][1], plist[i][2]),
             plist, i + 1)

RECURSIVE BindDefaults(_, _, _)
BindDefaults(args, plist, i) ==
    IF i > Len(plist) THEN args
    ELSE LET param_name == plist[i][1]
             default == plist[i][2]
         IN  BindDefaults(
                 IF param_name \in DOMAIN args["kwargs"]
                 THEN DictSet(args, param_name, args["kwargs"][param_name])
                 ELSE IF param_name \notin DOMAIN args
                 THEN DictSet(args, param_name, default)
                 ELSE args,
                 plist, i + 1)

_parse_params(cls, stack) ==
    LET args == caller_locals(stack, FALSE)
        plist == DefaultParams(cls)
        bound == BindPositional(args, plist, args["args"], 1)
    IN  IF bound.err # NoError THEN [err |-> bound.err, args |-> EmptyDict]
        ELSE [err |-> NoError,
              args |-> DictPop(BindDefaults(DictPop(bound.args, "args"), plist, 1), "kwargs")]

(* Node.__init__ and Linear.__init__ of src/magnet/nodes.py, with the      *)
(* _built flag of src/magnet/nodes/nodes.py.                               *)
Construct(cls, o, pos, kw) ==
    LET r == _parse_params(cls, InitStack(cls, o, pos, kw))
    IN  IF r.err # NoError THEN [err |-> r.err, args |-> EmptyDict]
        ELSE [err |-> NoError,
              args |-> IF cls = "Linear" THEN DictSet(r.args, "o", o) ELSE r.args]

---------------------------------------------------------------------------
(* Input shapes: rank 0..MaxRank, in_shape[1] (the channels) in            *)
(* 2..MaxChan, every other dimension MaxSize.  in_shape[i] of the code is  *)
(* in_shape[i + 1] here.                                                   *)
Shape(r, c) == [i \in 1..r |-> IF i = 2 THEN c ELSE MaxSize]

Shapes == { Shape(r, c) : r \in 0..MaxRank, c \in 2..MaxChan }

RECURSIVE Prod(_, _)
Prod(seq, from) == IF from > Len(seq) THEN 1 ELSE seq[from] * Prod(seq, from + 1)

---------------------------------------------------------------------------
(* The framework's modules, as far as the code relies on them: what the    *)
(* constructors called at nodes.py:53 and nodes.py:89 reject, and the      *)
(* output shape of the forward pass called at nodes.py:56 and nodes.py:92. *)
NoModule == [kind |-> "none"]

(* nn.Conv{nd}d(kwargs...): in_channels and out_channels must be divisible  *)
(* by groups; out_channels = None fails on that test.                      *)
ConvNd(nd, args, in_channels, id) ==
    IF in_channels % args["g"].i # 0 THEN [err |-> "ValueError", sub |-> NoModule]
    ELSE IF args["c"] = None THEN [err |-> "TypeError", sub |-> NoModule]
    ELSE IF args["c"].i % args["g"].i # 0 THEN [err |-> "ValueError", sub |-> NoModule]
    ELSE [err |-> NoError,
          sub |-> [kind |-> "Conv", nd |-> nd, cin |-> in_channels, cout |-> args["c"].i,
                   k |-> args["k"].i, s |-> args["s"].i, p |-> args["p"].i,
                   d |-> args["d"].i, g |-> args["g"].i, id |-> id]]

(* nn.Linear(kwargs...): in_features must be an integer (prod of an empty   *)
(* shape is the float 1.0).                                                *)
LinearModule(args, in_features, id) ==
    IF in_features.t # "int" THEN [err |-> "TypeError", sub |-> NoModule]
    ELSE [err |-> NoError,
          sub |-> [kind |-> "Linear", fin |-> in_features.i, fout |-> args["o"].i, id |-> id]]

ConvOut(m, L) == ((L + 2 * m.p - m.d * (m.k - 1) - 1) \div m.s) + 1

(* Conv.forward / Linear.forward: the output shape, or the framework's     *)
(* error for an input the submodule does not accept.                       *)
Forward(sub, in_shape) ==
    CASE sub.kind = "Conv" ->
            IF /\ Len(in_shape) = sub.nd + 2
               /\ in_shape[2] = sub.cin
               /\ \A i \in 3..Len(in_shape) : in_shape[i] + 2 * sub.p - sub.d * (sub.k - 1) - 1 >= 0
            THEN [err |-> NoError,
                  shape |-> [i \in 1..Len(in_shape) |->
                                IF i = 1 THEN in_shape[1]
                                ELSE IF i = 2 THEN sub.cout
                                ELSE ConvOut(sub, in_shape[i])]]
            ELSE [err |-> "RuntimeError", shape |-> <<>>]
      [] sub.kind = "Linear" ->
            IF Len(in_shape) >= 1 /\ in_shape[Len(in_shape)] = sub.fin
            THEN [err |-> NoError,
                  shape |-> [i \in 1..Len(in_shape) |->
                                IF i = Len(in_shape) THEN sub.fout ELSE in_shape[i]]]
            ELSE [err |-> "RuntimeError", shape |-> <<>>]
      [] OTHER -> [err |-> "AttributeError", shape |-> <<>>]

---------------------------------------------------------------------------
(* Conv._set_padding (src/magnet/nodes.py:58-72).                          *)

(* f as the fraction <<numerator, denominator>>; <<>> for any other p.     *)
PadFactor(p) ==
    IF p = PyStr("half") THEN <<1, 2>>
    ELSE IF p = PyStr("same") THEN <<1, 1>>
    ELSE <<>>

(* s = 1 / f and s.is_integer()                                            *)
StrideIsInteger(f) == f[2] % f[1] = 0

(* s = f instead of s = 1 / f                                              *)
StrideOf_NotInverted(f) == f[1] \div f[2]

StrideOf(f) == f[2] \div f[1]

_set_padding(args, in_shape) ==
    LET \* if self._args['c'] is None: self._args['c'] = self._args['s'] * in_shape[1]
        DefaultChannels(a) ==
            IF a["c"] # None THEN [err |-> NoError, args |-> a]
            ELSE IF Len(in_shape) < 2 THEN [err |-> "IndexError", args |-> a]
            ELSE [err |-> NoError, args |-> DictSet(a, "c", PyInt(a["s"].i * in_shape[2]))]
        \* self._args['p'] = int(self._args['k'] // 2)
        SetP(a) ==
            IF a["k"].t # "int" THEN [err |-> "TypeError", args |-> a]
            ELSE DefaultChannels(DictSet(a, "p", PyInt(a["k"].i \div 2)))
        Resolve(f) ==
            IF f = <<>> THEN [err |-> NoError, args |-> args]
            ELSE IF ~StrideIsInteger(f) THEN [err |-> "RuntimeError", args |-> args]
            ELSE SetP(DictSet(DictSet(args, "d", PyInt(1)), "s", PyInt(StrideOf(f))))
    IN  Resolve(PadFactor(args["p"]))

(* shape_dict[ndim - 1] for the three-element list: the number of spatial  *)
(* dimensions of the module picked, 0 for an IndexError.  A negative index *)
(* counts from the end of the list.                                        *)
ShapeDictIndex(idx) ==
    IF idx \in 0..2 THEN idx + 1
    ELSE IF idx \in (-3)..(-1) THEN idx + 4
    ELSE 0

ConvKwMap == {"k", "c", "s", "p", "d", "g", "b"}

(* Conv.build (src/magnet/nodes.py:42-53): the _args it leaves and the     *)
(* submodule it assigns, or the error it raises and the _args as they are  *)
(* at that point.                                                          *)
ConvBuild(args, in_shape, id) ==
    LET Assign(a, m) == [err |-> m.err, args |-> a, sub |-> m.sub]
        Instantiate(nd, sp) ==
            IF sp.err # NoError THEN [err |-> sp.err, args |-> sp.args, sub |-> NoModule]
            ELSE IF ~(DOMAIN sp.args \subseteq ConvKwMap)
            THEN [err |-> "KeyError", args |-> sp.args, sub |-> NoModule]
            ELSE IF Len(in_shape) < 2
            THEN [err |-> "IndexError", args |-> sp.args, sub |-> NoModule]
            ELSE Assign(sp.args, ConvNd(nd, sp.args, in_shape[2], id))
        Pick(nd) ==
            IF nd = 0 THEN [err |-> "IndexError", args |-> args, sub |-> NoModule]
            ELSE Instantiate(nd, _set_padding(args, in_shape))
    IN  Pick(ShapeDictIndex((Len(in_shape) - 2) - 1))

LinearKwMap == {"o", "b"}

(* Linear.build (src/magnet/nodes.py:83-89).                               *)
LinearBuild(args, in_shape, id) ==
    IF ~(DOMAIN args \subseteq LinearKwMap)
    THEN [err |-> "KeyError", args |-> args, sub |-> NoModule]
    ELSE LET Assign(m) == [err |-> m.err, args |-> args, sub |-> m.sub]
         IN  Assign(LinearModule(args,
                                 IF Len(in_shape) <= 1 THEN [t |-> "float", i |-> 1, s |-> ""]
                                 ELSE PyInt(Prod(in_shape, 2)),
                                 id))

SubclassBuild(cls, args, in_shape, id) ==
    IF cls = "Conv" THEN ConvBuild(args, in_shape, id) ELSE LinearBuild(args, in_shape, id)

---------------------------------------------------------------------------
(* The Node instance and its invocation (src/magnet/nodes/nodes.py).       *)

NewNode ==
    [state |-> "new", cls |-> "", args |-> EmptyDict, args0 |-> EmptyDict,
     built |-> FALSE, sub |-> NoModule,
     calls |-> 0, builds |-> 0, done |-> 0, unlocked |-> FALSE]

(* A build that forgets to set _built.                                     *)
NodeBuild_Forgets(n) == n

(* Node.build: marks the node built (and moves it to mag.device).          *)
NodeBuild(n) == [n EXCEPT !.built = TRUE]

(* The build step of a Conv or Linear node as the design describes it:     *)
(* handed the shape of the input, the subclass resolves its parameters and *)
(* instantiates the submodule, then the node is marked built.  A raise     *)
(* leaves the rest undone.                                                 *)
Build(n, in_shape) ==
    LET Finish(r) ==
            IF r.err # NoError
            THEN [err |-> r.err, node |-> [n EXCEPT !.args = r.args]]
            ELSE [err |-> NoError,
                  node |-> NodeBuild([n EXCEPT !.args = r.args, !.sub = r.sub])]
    IN  Finish(SubclassBuild(n.cls, n.args, in_shape, n.builds + 1))

(* A guard that rebuilds at every invocation.                              *)
BuildNeeded_Always(built, lock) == TRUE

(* A guard in which the lock alone decides: no build while it is set.      *)
BuildNeeded_LockOnly(built, lock) == ~lock

(* The condition of Node.__call__: if not (self._built and mag.build_lock) *)
BuildNeeded(built, lock) == ~(built /\ lock)

(* Node.__call__: build if needed, then the forward pass.                  *)
Invoke(n, lock, in_shape) ==
    LET Result(doBuild, b, n1, f) ==
            [node |-> n1, ranBuild |-> doBuild, err |-> f.err,
             where |-> IF b.err # NoError THEN "build"
                       ELSE IF f.err # NoError THEN "forward" ELSE "",
             shape |-> f.shape]
        \* return super().__call__(x), unless build raised
        Delegate(doBuild, b, n1) ==
            Result(doBuild, b, n1,
                   IF b.err = NoError THEN Forward(n1.sub, in_shape)
                   ELSE [err |-> b.err, shape |-> <<>>])
        Count(doBuild, b) ==
            Delegate(doBuild, b,
                     [b.node EXCEPT !.calls = @ + 1,
                                    !.builds = IF doBuild THEN @ + 1 ELSE @,
                                    !.done = IF doBuild /\ b.err = NoError THEN @ + 1 ELSE @,
                                    !.unlocked = @ \/ ~lock])
        Guarded(doBuild) ==
            Count(doBuild,
                  IF doBuild THEN Build(n, in_shape) ELSE [err |-> NoError, node |-> n])
    IN  Guarded(BuildNeeded(n.built, lock))

---------------------------------------------------------------------------
(* The constructor calls the lifecycle is explored with.                   *)
ConvPos == { <<>>, <<PyInt(4)>>, <<PyInt(4), PyInt(5)>> }

KwOver(keys) ==
    { kw \in [keys -> {PyStr("same"), PyInt(1), PyInt(2)}] :
        /\ "p" \in keys => kw["p"] \in {PyStr("same"), PyInt(1)}
        /\ "g" \in keys => kw["g"] = PyInt(2)
        /\ "s" \in keys => kw["s"] = PyInt(2) /\ "p" \in keys /\ kw["p"] = PyInt(1) }

ConvKw == UNION { KwOver(keys) : keys \in SUBSET {"p", "g", "s"} }

CtorCalls ==
    { [cls |-> "Conv", o |-> None, pos |-> pos, kw |-> kw] : pos \in ConvPos, kw \in ConvKw }
    \cup
    { [cls |-> "Linear", o |-> PyInt(4), pos |-> pos, kw |-> EmptyDict] :
        pos \in { <<>>, <<True>>, <<True, True>> } }

NoOp == [op |-> "none", in_shape |-> <<>>, lock |-> FALSE, pre |-> NewNode,
         ranBuild |-> FALSE, err |-> NoError, where |-> "", shape |-> <<>>]

NoProbe == [n |-> 0, in_shape |-> <<>>, builds |-> 0, firstBuilt |-> FALSE,
            outs |-> {}, changed |-> FALSE, locked |-> TRUE, firstOk |-> FALSE]

NoInput == [kind |-> "none"]

NoOutput == [kind |-> "none"]

Init ==
    /\ node = NewNode
    /\ build_lock \in BOOLEAN
    /\ last = NoOp
    /\ probe = NoProbe
    /\ inp = NoInput
    /\ out = NoOutput

(* net = Conv(...) / Linear(...)                                           *)
ConstructNode ==
    /\ node.state = "new"
    /\ \E c \in CtorCalls :
        \E r \in {Construct(c.cls, c.o, c.pos, c.kw)} :
            /\ node' = IF r.err # NoError
                       THEN [node EXCEPT !.state = "failed", !.cls = c.cls]
                       ELSE [node EXCEPT !.state = "alive", !.cls = c.cls,
                                         !.args = r.args, !.args0 = r.args,
                                         !.built = FALSE]
            /\ last' = [NoOp EXCEPT !.op = "construct", !.err = r.err, !.lock = build_lock]
    /\ UNCHANGED <<build_lock, probe, inp, out>>

(* mag.build_lock = b, by whoever drives the process                       *)
SetLock ==
    /\ build_lock' = ~build_lock
    /\ last' = [NoOp EXCEPT !.op = "lock", !.lock = build_lock, !.pre = node]
    /\ UNCHANGED <<node, probe, inp, out>>

(* net(x) with x of shape in_shape                                         *)
Call ==
    /\ node.state = "alive"
    /\ node.calls < MaxCalls
    /\ \E in_shape \in Shapes :
        \E r \in {Invoke(node, build_lock, in_shape)} :
            /\ node' = r.node
            /\ last' = [op |-> "call", in_shape |-> in_shape, lock |-> build_lock,
                        pre |-> node, ranBuild |-> r.ranBuild, err |-> r.err,
                        where |-> r.where, shape |-> r.shape]
    /\ probe' = NoProbe
    /\ UNCHANGED <<build_lock, inp, out>>

(* net.get_output_shape(in_shape) / get_output_shape(net, in_shape): one   *)
(* invocation on a random tensor of that shape, the size of the result.    *)
(* probe follows the run of such calls on one shape that started on an     *)
(* unbuilt node.                                                           *)
GetOutputShape ==
    /\ node.state = "alive"
    /\ node.calls < MaxCalls
    /\ \E in_shape \in Shapes :
        \E r \in {Invoke(node, build_lock, in_shape)} :
        LET cont == probe.n > 0 /\ probe.in_shape = in_shape
            moved == r.node.args # node.args \/ r.node.sub # node.sub
            outs == IF r.err = NoError THEN {r.shape} ELSE {}
        IN  /\ node' = r.node
            /\ last' = [op |-> "probe", in_shape |-> in_shape, lock |-> build_lock,
                        pre |-> node, ranBuild |-> r.ranBuild, err |-> r.err,
                        where |-> r.where, shape |-> r.shape]
            /\ probe' = IF cont
                        THEN [probe EXCEPT !.n = @ + 1,
                                           !.builds = IF r.ranBuild THEN @ + 1 ELSE @,
                                           !.outs = @ \cup outs,
                                           !.changed = @ \/ moved,
                                           !.locked = @ /\ build_lock]
                        ELSE IF ~node.built
                        THEN [n |-> 1, in_shape |-> in_shape,
                              builds |-> IF r.ranBuild THEN 1 ELSE 0,
                              firstBuilt |-> r.ranBuild, outs |-> outs,
                              changed |-> FALSE, locked |-> build_lock,
                              firstOk |-> r.where # "build"]
                        ELSE NoProbe
    /\ UNCHANGED <<build_lock, inp, out>>

Next == ConstructNode \/ SetLock \/ Call \/ GetOutputShape

Spec == Init /\ [][Next]_vars

---------------------------------------------------------------------------
(* Constructor calls resolved against the Parameter Tables                 *)
(* (specification SpecParams).                                             *)

RECURSIVE SeqsUpTo(_, _)
SeqsUpTo(S, n) ==
    IF n = 0 THEN { <<>> }
    ELSE SeqsUpTo(S, n - 1) \cup { Append(q, v) : q \in { r \in SeqsUpTo(S, n - 1) : Len(r) = n - 1 }, v \in S }

Dicts(keys, vals) == UNION { [ks -> vals] : ks \in SUBSET keys }

ParamCalls ==
    { [kind |-> "ctor", cls |-> cls, o |-> PyInt(4), pos |-> pos, kw |-> kw] :
        cls \in {"Conv", "Linear"},
        pos \in SeqsUpTo({PyInt(8), PyStr("same")}, MaxPos),
        kw \in Dicts({"c", "k", "b", "z"}, {PyInt(9), None}) }

InitParams ==
    /\ node = NewNode
    /\ build_lock = FALSE
    /\ last = NoOp
    /\ probe = NoProbe
    /\ inp \in ParamCalls
    /\ out = NoOutput

(* cls(pos, kw): Node.__init__ with _parse_params                       *)
ResolveParams ==
    /\ inp.kind = "ctor"
    /\ out = NoOutput
    /\ \E r \in {Construct(inp.cls, inp.o, inp.pos, inp.kw)} :
          out' = [kind |-> "args", err |-> r.err, args |-> r.args]
    /\ UNCHANGED <<node, build_lock, last, probe, inp>>

SpecParams == InitParams /\ [][ResolveParams]_vars

---------------------------------------------------------------------------
(* Node._parse_args and Node.__init__ of src/magnet/nodes/nodes.py         *)
(* (specification SpecArgs).                                               *)

(* A check that lets the empty name through.                               *)
InvalidName_NoneOnly(name) == name = None

(* if self.name is None or self.name == ''                                 *)
InvalidName(name) == name = None \/ name = PyStr("")

_parse_args(cls, stack) ==
    LET Store(name, a) ==
            IF InvalidName(name)
            THEN [err |-> "ValueError", msg |-> [cls |-> cls, name |-> name],
                  name |-> name, assigned |-> FALSE, args |-> EmptyDict]
            ELSE [err |-> NoError, msg |-> [cls |-> "", name |-> None],
                  name |-> name, assigned |-> TRUE, args |-> a]
        \* self.name = args.pop('name', self.__class__.__name__)
        PopName(a) == Store(DictGet(a, "name", PyStr(cls)), DictPop(a, "name"))
        \* args.update(args.pop('kwargs', {}))
        Flatten(l) == PopName(DictUpdate(DictPop(l, "kwargs"), DictGet(l, "kwargs", EmptyDict)))
    IN  Flatten(caller_locals(stack, TRUE))

NodeCalls ==
    { [kind |-> "node_ctor", cls |-> cls, o |-> PyInt(4), pos |-> pos, kw |-> kw] :
        cls \in {"Node", "Conv", "Linear"},
        pos \in SeqsUpTo({PyInt(8)}, MaxPos),
        kw \in { DictUpdate(a, b) :
                    a \in Dicts({"name"}, {None, PyStr(""), PyStr("block1")}),
                    b \in Dicts({"k", "b"}, {PyInt(9)}) } }

InitArgs ==
    /\ node = NewNode
    /\ build_lock = FALSE
    /\ last = NoOp
    /\ probe = NoProbe
    /\ inp \in NodeCalls
    /\ out = NoOutput

(* cls(pos, kw): Node.__init__ with _parse_args; _built = False follows *)
(* only if _parse_args returns.                                            *)
ParseArgs ==
    /\ inp.kind = "node_ctor"
    /\ out = NoOutput
    /\ \E r \in {_parse_args(inp.cls, InitStack(inp.cls, inp.o, inp.pos, inp.kw))} :
          out' = [kind |-> "node", err |-> r.err, msg |-> r.msg, name |-> r.name,
                  assigned |-> r.assigned, args |-> r.args, built |-> FALSE]
    /\ UNCHANGED <<node, build_lock, last, probe, inp>>

SpecArgs == InitArgs /\ [][ParseArgs]_vars

---------------------------------------------------------------------------
(* to_node (src/magnet/_utils.py:41-57), specification SpecToNode.         *)
(* A declarative specification x is one of                                 *)
(*   [kind |-> "dict", keys, first]  a mapping: its keys in order and the  *)
(*                                   value of its first key                *)
(*   [kind |-> "list", made]         a list or tuple; made is the object   *)
(*                                   Sequential(x...) returns                *)
(*   [kind |-> "function", made]     a function; made is what Lambda(x)    *)
(*                                   returns                               *)
(*   [kind |-> "object", made]       anything else, returned as it is      *)
(* An object is [cls, name]; name is NoAttr when it has no such attribute. *)
NoAttr == [t |-> "absent", i |-> 0, s |-> ""]

(* A to_node that names only a node that has no name yet.                  *)
RECURSIVE to_node_KeepsName(_)
to_node_KeepsName(x) ==
    LET Named(r) ==
            IF r.err # NoError THEN r
            ELSE IF r.node.name = NoAttr
            THEN [r EXCEPT !.node.name = PyStr(r.node.cls)]
            ELSE r
        Rename(r, name) ==
            IF r.err # NoError \/ r.node.name # NoAttr THEN r
            ELSE [r EXCEPT !.node.name = PyStr(name)]
    IN  Named(IF x.kind = "dict"
              THEN IF Len(x.keys) = 0
                   THEN [err |-> "IndexError", node |-> [cls |-> "", name |-> NoAttr]]
                   ELSE Rename(to_node_KeepsName(x.first), x.keys[1])
              ELSE [err |-> NoError, node |-> x.made])

RECURSIVE to_node(_)
to_node(x) ==
    LET \* if not hasattr(node, 'name'): node.name = node.__class__.__name__
        Named(r) ==
            IF r.err # NoError THEN r
            ELSE IF r.node.name = NoAttr
            THEN [r EXCEPT !.node.name = PyStr(r.node.cls)]
            ELSE r
        \* node = to_node(x[name], input_shape); node.name = name
        Rename(r, name) ==
            IF r.err # NoError THEN r ELSE [r EXCEPT !.node.name = PyStr(name)]
    IN  Named(IF x.kind = "dict"
              THEN IF Len(x.keys) = 0
                   THEN [err |-> "IndexError", node |-> [cls |-> "", name |-> NoAttr]]
                   ELSE Rename(to_node(x.first), x.keys[1])
              ELSE [err |-> NoError, node |-> x.made])

Leaves ==
    { [kind |-> "object", made |-> [cls |-> c, name |-> n]] :
        c \in {"Conv", "Linear"}, n \in {NoAttr, PyStr("old"), PyStr("block1")} }
    \cup
    { [kind |-> "list", made |-> [cls |-> "Sequential", name |-> n]] :
        n \in {NoAttr, PyStr("Sequential"), PyStr("old")} }
    \cup
    { [kind |-> "function", made |-> [cls |-> "Lambda", name |-> n]] :
        n \in {NoAttr, PyStr("Lambda"), PyStr("old")} }

RECURSIVE NodeSpecs(_)
NodeSpecs(depth) ==
    IF depth = 0 THEN Leaves
    ELSE NodeSpecs(depth - 1) \cup
         { [kind |-> "dict", keys |-> ks, first |-> v] :
             ks \in SeqsUpTo({"block1", "block2"}, 2), v \in NodeSpecs(depth - 1) }

InitToNode ==
    /\ node = NewNode
    /\ build_lock = FALSE
    /\ last = NoOp
    /\ probe = NoProbe
    /\ inp \in NodeSpecs(MaxDepth)
    /\ out = NoOutput

ToNode ==
    /\ inp.kind \in {"dict", "list", "function", "object"}
    /\ out = NoOutput
    /\ \E r \in {to_node(inp)} :
          out' = [kind |-> "to_node", err |-> r.err, node |-> r.node]
    /\ UNCHANGED <<node, build_lock, last, probe, inp>>

SpecToNode == InitToNode /\ [][ToNode]_vars

---------------------------------------------------------------------------
(* Properties of the constructors and of to_node.                          *)

KeyIndex(cls, k) == CHOOSE j \in 1..Len(DefaultParams(cls)) : DefaultParams(cls)[j][1] = k

(* C3: a constructor call with at most as many positional arguments as the *)
(* table has keys resolves; _args then holds every table key once (and for *)
(* Linear its o), a key given by keyword has the keyword's value, else the *)
(* i-th key has the i-th positional value, else its default; 'args' and    *)
(* 'kwargs' are not keys of _args.                                         *)
C3_ParamsResolved ==
    (out.kind = "args" /\ Len(inp.pos) <= Len(DefaultParams(inp.cls))) =>
        /\ out.err = NoError
        /\ DOMAIN out.args = TableKeys(inp.cls) \cup (IF inp.cls = "Linear" THEN {"o"} ELSE {})
        /\ \A k \in TableKeys(inp.cls) :
              out.args[k] = IF k \in DOMAIN inp.kw THEN inp.kw[k]
                            ELSE IF KeyIndex(inp.cls, k) <= Len(inp.pos)
                            THEN inp.pos[KeyIndex(inp.cls, k)]
                            ELSE TableDefault(inp.cls, k)
        /\ "args" \notin DOMAIN out.args
        /\ "kwargs" \notin DOMAIN out.args

C3_Witness ==
    /\ out.kind = "args" /\ inp.cls = "Conv" /\ out.err = NoError
    /\ Len(inp.pos) = 2 /\ inp.pos[1] = PyInt(8) /\ inp.pos[2] = PyStr("same")
    /\ "c" \in DOMAIN inp.kw /\ inp.kw["c"] = PyInt(9) /\ "k" \notin DOMAIN inp.kw
    /\ out.args["c"] = PyInt(9)
    /\ out.args["k"] = PyStr("same")
    /\ out.args["p"] = PyStr("half")

C9_NamedByKey ==
    out.kind = "to_node" =>
        /\ (inp.kind = "dict" /\ Len(inp.keys) = 1) =>
              (out.err = NoError => out.node.name = PyStr(inp.keys[1]))
        /\ (inp.kind = "dict" /\ Len(inp.keys) = 1 /\ inp.first.kind # "dict") =>
              /\ out.err = NoError
              /\ out.node.cls = inp.first.made.cls
        /\ inp.kind # "dict" =>
              /\ out.err = NoError
              /\ out.node.cls = inp.made.cls
              /\ out.node.name = IF inp.made.name = NoAttr THEN PyStr(inp.made.cls)
                                 ELSE inp.made.name

C9_Witness ==
    /\ out.kind = "to_node" /\ inp.kind = "dict" /\ inp.keys = <<"block1">>
    /\ inp.first.kind = "object" /\ inp.first.made.name = PyStr("old")
    /\ out.err = NoError /\ out.node.name = PyStr("block1")

---------------------------------------------------------------------------
(* Properties of the lifecycle (specification Spec).                       *)

Invoked == last.op \in {"call", "probe"}

(* C1, as stated: while build_lock is set at every invocation, the build   *)
(* step has run exactly once as soon as the node has been invoked, and a   *)
(* built node stays built.                                                 *)
C1_BuildRunsOnceOnFirstCall ==
    /\ (node.state = "alive" /\ ~node.unlocked /\ node.calls >= 1) => node.builds = 1
    /\ (Invoked /\ last.pre.built) => node.built

(* C1, amended: while build_lock is set at every invocation, the build     *)
(* step runs at an invocation exactly when the node is unbuilt, it         *)
(* completes at most once (a build that raises leaves the node unbuilt and *)
(* the next invocation builds again), the node is built exactly when a     *)
(* build has completed, and a built node stays built (lock set or not).    *)
C1_BuildCompletesOnce ==
    /\ (node.state = "alive" /\ ~node.unlocked) =>
          /\ node.done <= 1
          /\ node.built = (node.done = 1)
          /\ Invoked => /\ last.ranBuild = ~last.pre.built
                        /\ last.pre.built => node.builds = last.pre.builds
                        /\ (last.ranBuild /\ last.where # "build") => node.built
    /\ (Invoked /\ last.pre.built) => node.built

C1_Witness ==
    /\ ~node.unlocked /\ node.calls >= 3 /\ node.built
    /\ node.builds = 1 /\ node.done = 1
    /\ Invoked /\ ~last.ranBuild /\ last.err = NoError

(* C2, as stated: with build_lock set, an invocation of an unbuilt node    *)
(* does not run build and leaves _built, _args and the submodule as they   *)
(* were.                                                                   *)
C2_LockSuppressesBuildOfUnbuilt ==
    (Invoked /\ last.lock /\ ~last.pre.built) =>
        /\ ~last.ranBuild
        /\ node.built = last.pre.built
        /\ node.args = last.pre.args
        /\ node.sub = last.pre.sub

(* C2, amended: with build_lock set, an invocation of a BUILT node does    *)
(* not run build and leaves _built, _args and the submodule as they were;  *)
(* an invocation of an unbuilt node runs build whatever the flag is.       *)
C2_LockSuppressesRebuild ==
    /\ (Invoked /\ last.lock /\ last.pre.built) =>
          /\ ~last.ranBuild
          /\ node.built = last.pre.built
          /\ node.args = last.pre.args
          /\ node.sub = last.pre.sub
    /\ (Invoked /\ ~last.pre.built) => last.ranBuild

C2_Witness ==
    /\ Invoked /\ last.lock /\ last.pre.built /\ ~last.ranBuild
    /\ last.pre.cls = "Conv" /\ last.err = NoError

(* C4: a build that raises leaves the node unbuilt, without a submodule    *)
(* and with the _args it had before the invocation, so that a retry builds *)
(* what a freshly constructed node would build.                            *)
C4_FailedBuildLeavesArgs ==
    (Invoked /\ ~last.pre.built /\ last.where = "build") =>
        /\ ~node.built
        /\ node.sub = NoModule
        /\ node.args = last.pre.args
        /\ \A sh \in Shapes :
              SubclassBuild(node.cls, node.args, sh, 0)
                  = SubclassBuild(node.cls, node.args0, sh, 0)

C6_DefaultOutChannels ==
    (Invoked /\ last.ranBuild /\ last.pre.cls = "Conv"
        /\ last.pre.args["c"] = None /\ Len(last.in_shape) \in 3..5) =>
        node.args["c"] = PyInt(node.args["s"].i * last.in_shape[2])

(* C10: Conv.build assigns the 1-, 2- or 3-dimensional module exactly for  *)
(* an input of rank 3, 4 or 5, with in_channels = in_shape[1]; for any     *)
(* other rank it raises and assigns no submodule.                          *)
C10_DimsFromRank ==
    (Invoked /\ last.ranBuild /\ last.pre.cls = "Conv") =>
        /\ last.where # "build" =>
              /\ Len(last.in_shape) \in 3..5
              /\ node.sub.nd = Len(last.in_shape) - 2
              /\ node.sub.cin = last.in_shape[2]
        /\ Len(last.in_shape) \notin 3..5 =>
              /\ last.where = "build"
              /\ node.sub = last.pre.sub

(* C8, as stated: in a run of get_output_shape calls on one shape that     *)
(* starts on an unbuilt node, only the first call runs build, all calls    *)
(* return one shape, and no call after the first changes _args or the      *)
(* submodule.                                                              *)
C8_ProbeBuildsOnce ==
    probe.n >= 1 =>
        /\ probe.firstBuilt
        /\ probe.builds = 1
        /\ Cardinality(probe.outs) <= 1
        /\ ~probe.changed

(* C8, amended: the first call of such a run runs build and all calls that *)
(* return return one shape; if build_lock is set at every call of the run  *)
(* and the first call's build completes, no later call runs build or       *)
(* changes _args or the submodule.                                         *)
C8_ProbeStableUnderLock ==
    probe.n >= 1 =>
        /\ probe.firstBuilt
        /\ Cardinality(probe.outs) <= 1
        /\ (probe.locked /\ probe.firstOk) => (probe.builds = 1 /\ ~probe.changed)

C8_Witness ==
    /\ probe.n >= 3 /\ probe.locked /\ probe.firstOk /\ probe.builds = 1
    /\ probe.outs # {} /\ last.op = "probe" /\ last.err = NoError /\ ~last.ranBuild

====
